---- MODULE Spec2Model ----
(***************************************************************************)
(* The patients GraphQL service of main.go over the patients table of the  *)
(* README's DDL.  Each HTTP request is served by its own goroutine; the    *)
(* goroutines share the process-wide handle db and, through it, the table. *)
(* A resolver issues its SQL statement as one atomic storage step.         *)
(***************************************************************************)
EXTENDS Integers, Sequences, FiniteSets, TLC

\* ---- bounds of the model -------------------------------------------------
\* Largest value patients_id_seq hands out in a run.
MaxSeq == 2

\* Concurrent request goroutines (net/http serves each request on its own).
Handlers == {"h1", "h2"}

\* Argument values.  "" is what a failed type assertion on an omitted string
\* argument yields (update's optional name); 0 is the same for an omitted id.
Names == {"", "Ann"}
Emails == {"a@test.com", "b@test.com"}
Phones == {"111", "222"}
Ids == 0..MaxSeq

\* ---- state ---------------------------------------------------------------
VARIABLES
    table,      \* the patients table: id -> [name, email, phone]
    seq,        \* next value of the SERIAL column's sequence
    alive,      \* FALSE once log.Fatal has ended the process
    pc,         \* handler -> "idle", the resolver it is in, or "fatal"
    last,       \* the invocation resolved last: arguments, storage error, result
    returned,   \* history: the ids returned by successful creates, in order
    pristine    \* history: id -> entity create returned, until updated/deleted

vars == <<table, seq, alive, pc, last, returned, pristine>>

\* Every id a row of the table has ever had.
usedIds == {returned[k] : k \in 1..Len(returned)}

\* ---- values --------------------------------------------------------------
\* type Patient struct {ID, Name, Email, Phone}
Patient(id, name, email, phone) ==
    [id |-> id, name |-> name, email |-> email, phone |-> phone]

\* The zero request of an idle handler.
NoReq == [op |-> "none", id |-> 0, name |-> "", email |-> "", phone |-> ""]

\* No result yet.
NoResp == [kind |-> "none", value |-> <<>>]

\* var patients []*Patient: the nil slice.
NilSlice == [isNil |-> TRUE, elems |-> <<>>]

\* append(patients, patient)
Append_(s, p) == [isNil |-> FALSE, elems |-> Append(s.elems, p)]

\* logFatal as log.Print would leave it: the error is logged, nothing exits.
logFatalPrintsOnly(err) == FALSE

\* logFatal(err): TRUE when the process exits.
logFatal(err) == err /= "nil"

\* ---- the storage layer: the patients table ------------------------------
\* An id taken from the table instead of the sequence: the lowest id free.
SerialLowestFree(t, s) == CHOOSE i \in 1..(Cardinality(DOMAIN t) + 1) : i \notin DOMAIN t

\* An id taken from the table instead of the sequence: max(id) + 1.
SerialMaxPlusOne(t, s) ==
    IF DOMAIN t = {} THEN 1 ELSE (CHOOSE i \in DOMAIN t : \A j \in DOMAIN t : j <= i) + 1

\* id SERIAL: DEFAULT nextval('patients_id_seq').
SerialDefault(t, s) == s

\* The email column without its UNIQUE constraint.
EmailNotUnique(t, id, email) == FALSE

\* email TEXT UNIQUE: would a row `id` with this email violate the index?
EmailConflict(t, id, email) ==
    \E j \in DOMAIN t : j /= id /\ t[j].email = email

\* The values bound in the order of the README's sample insert: email first.
NewRowEmailFirst(name, email, phone) == [name |-> email, email |-> name, phone |-> phone]

\* The column values of an inserted row, from values($1, $2, $3).
NewRow(name, email, phone) == [name |-> name, email |-> email, phone |-> phone]

\* insert into patients(name, email, phone) values($1, $2, $3) returning id
InsertPatient(t, s, name, email, phone) ==
    LET id == SerialDefault(t, s) IN
    IF EmailConflict(t, id, email)
    THEN [err |-> "unique_violation", table |-> t, seq |-> s + 1, id |-> 0]
    ELSE [err |-> "nil",
          table |-> [i \in DOMAIN t \cup {id} |->
                        IF i = id THEN NewRow(name, email, phone) ELSE t[i]],
          seq |-> s + 1, id |-> id]

\* An update that keeps the stored name when the name argument is omitted.
UpdatedRowKeepsName(old, name, email, phone) ==
    [name |-> IF name = "" THEN old.name ELSE name, email |-> email, phone |-> phone]

\* set name = $1, email = $2, phone = $3
UpdatedRow(old, name, email, phone) == [name |-> name, email |-> email, phone |-> phone]

\* update patients set name = $1, email = $2, phone = $3 where id = $4
UpdatePatient(t, id, name, email, phone) ==
    IF id \notin DOMAIN t
    THEN [err |-> "nil", table |-> t, rowsAffected |-> 0]
    ELSE IF EmailConflict(t, id, email)
    THEN [err |-> "unique_violation", table |-> t, rowsAffected |-> 0]
    ELSE [err |-> "nil",
          table |-> [t EXCEPT ![id] = UpdatedRow(t[id], name, email, phone)],
          rowsAffected |-> 1]

\* delete from patients where id = $1
DeletePatient(t, id) == [i \in DOMAIN t \ {id} |-> t[i]]

\* select id, name, email, phone from patients where id = $1, then Scan.
SelectPatient(t, id) ==
    IF id \in DOMAIN t
    THEN [err |-> "nil", patient |-> Patient(id, t[id].name, t[id].email, t[id].phone)]
    ELSE [err |-> "ErrNoRows", patient |-> Patient(0, "", "", "")]

\* The orders in which a set of ids can be listed.
RECURSIVE Orders(_)
Orders(S) ==
    IF S = {} THEN {<<>>}
    ELSE UNION {{<<i>> \o o : o \in Orders(S \ {i})} : i \in S}

\* select * from patients: every row, in an order the engine chooses.
SelectAll(t) ==
    {[k \in 1..Len(o) |-> Patient(o[k], t[o[k]].name, t[o[k]].email, t[o[k]].phone)] :
        o \in Orders(DOMAIN t)}

\* graphql.Do completes a resolver's return value into the result: a list
\* type yields a list whatever the slice (nil or not), a nil interface null.
CompleteList(s) == [kind |-> "list", value |-> s.elems]
CompletePatient(p) == [kind |-> "patient", value |-> p]
CompleteNull == [kind |-> "null", value |-> <<>>]

\* The loop left after its first pass: at most one row is returned.
CollectFirstOnly(s, rows) ==
    IF rows = <<>> THEN s ELSE Append_(s, Head(rows))

\* The loop of getPatients over the rows rows.Next() delivers.
RECURSIVE Collect(_, _)
Collect(s, rows) ==
    IF rows = <<>> THEN s ELSE Collect(Append_(s, Head(rows)), Tail(rows))

\* ---- initial state: the service started on the freshly created table -----
Init ==
    /\ table = <<>>
    /\ seq = 1
    /\ alive = TRUE
    /\ pc = [h \in Handlers |-> "idle"]
    /\ last = [req |-> NoReq, err |-> "nil", resp |-> NoResp]
    /\ returned = <<>>
    /\ pristine = <<>>

\* Creates already received whose insert has not run yet.
PendingCreates == Cardinality({h \in Handlers : pc[h] = "create"})

\* ---- the HTTP gateway ----------------------------------------------------
\* r.HandleFunc("/patient", ...): a request arrives and graphql.Do calls the
\* resolver of its field.
Receive(h) ==
    /\ alive
    /\ pc[h] = "idle"
    /\ \E o \in {"getPatient", "getPatients", "create", "update", "delete"} :
        /\ o = "create" => seq + PendingCreates <= MaxSeq
        /\ pc' = [pc EXCEPT ![h] = o]
    /\ UNCHANGED <<table, seq, alive, last, returned, pristine>>

\* log.Fatal(err) inside handler h: os.Exit(1).  Nothing is written for any
\* request, this one included, and no goroutine takes another step.
Fatal(h, r, e) ==
    /\ alive' = FALSE
    /\ pc' = [pc EXCEPT ![h] = "fatal"]
    /\ last' = [req |-> r, err |-> e, resp |-> NoResp]

\* return v, nil: graphql.Do completes the value into the result and
\* json.NewEncoder(w).Encode(result) writes it; the handler ends.
Return(h, r, e, v) ==
    /\ last' = [req |-> r, err |-> e, resp |-> v]
    /\ pc' = [pc EXCEPT ![h] = "idle"]
    /\ UNCHANGED alive

\* ---- the resolvers -------------------------------------------------------
\* Each resolver reads its arguments from params.Args and issues its statement.
GetPatient(h, id) ==
    /\ alive
    /\ pc[h] = "getPatient"
    /\ LET a == [NoReq EXCEPT !.op = "getPatient", !.id = id]
           r == SelectPatient(table, id) IN
        IF logFatal(r.err)
        THEN Fatal(h, a, r.err)
        ELSE Return(h, a, r.err, CompletePatient(r.patient))
    /\ UNCHANGED <<table, seq, returned, pristine>>

GetPatients(h) ==
    /\ alive
    /\ pc[h] = "getPatients"
    /\ \E rows \in SelectAll(table) :
        Return(h, [NoReq EXCEPT !.op = "getPatients"], "nil",
               CompleteList(Collect(NilSlice, rows)))
    /\ UNCHANGED <<table, seq, returned, pristine>>

Create(h, name, email, phone) ==
    /\ alive
    /\ pc[h] = "create"
    /\ LET a == [NoReq EXCEPT !.op = "create", !.name = name, !.email = email, !.phone = phone]
           r == InsertPatient(table, seq, name, email, phone)
           p == Patient(r.id, name, email, phone) IN
        /\ seq' = r.seq
        /\ table' = r.table
        /\ IF logFatal(r.err)
           THEN Fatal(h, a, r.err) /\ UNCHANGED <<returned, pristine>>
           ELSE /\ Return(h, a, r.err, CompletePatient(p))
                /\ returned' = Append(returned, p.id)
                /\ pristine' = [i \in DOMAIN pristine \cup {p.id} |->
                                    IF i = p.id THEN p ELSE pristine[i]]

Update(h, id, name, email, phone) ==
    /\ alive
    /\ pc[h] = "update"
    /\ LET a == [op |-> "update", id |-> id, name |-> name, email |-> email, phone |-> phone]
           r == UpdatePatient(table, id, name, email, phone)
           p == Patient(id, name, email, phone) IN
        /\ table' = r.table
        /\ IF logFatal(r.err)
           THEN Fatal(h, a, r.err) /\ UNCHANGED pristine
           ELSE /\ Return(h, a, r.err, CompletePatient(p))
                /\ pristine' = [i \in DOMAIN pristine \ {id} |-> pristine[i]]
    /\ UNCHANGED <<seq, returned>>

Delete(h, id) ==
    /\ alive
    /\ pc[h] = "delete"
    /\ table' = DeletePatient(table, id)
    /\ Return(h, [NoReq EXCEPT !.op = "delete", !.id = id], "nil", CompleteNull)
    /\ pristine' = [i \in DOMAIN pristine \ {id} |-> pristine[i]]
    /\ UNCHANGED <<seq, returned>>

Next ==
    \E h \in Handlers :
        \/ Receive(h)
        \/ \E id \in Ids : GetPatient(h, id)
        \/ GetPatients(h)
        \/ \E n \in Names, e \in Emails, p \in Phones : Create(h, n, e, p)
        \/ \E id \in Ids, n \in Names, e \in Emails, p \in Phones : Update(h, id, n, e, p)
        \/ \E id \in Ids : Delete(h, id)

Spec == Init /\ [][Next]_vars

\* ---- storage failures ----------------------------------------------------
\* The statement of handler h's resolver fails in the storage layer (the
\* connection is lost): QueryRow(...).Scan, db.Query, db.Prepare or stmt.Exec
\* returns the error, which the resolver hands to logFatal.
StorageFail(h) ==
    /\ alive
    /\ pc[h] \in {"getPatient", "getPatients", "create", "update", "delete"}
    /\ logFatal("conn_error")
    /\ Fatal(h, [NoReq EXCEPT !.op = pc[h]], "conn_error")
    /\ UNCHANGED <<table, seq, returned, pristine>>

\* The result set of getPatients breaks after k rows: rows.Next() returns
\* false, the error stays in rows.Err(), which the resolver never reads (as
\* it never reads the err of rows.Scan), and the rows read so far are returned.
GetPatientsRowsErr(h) ==
    /\ alive
    /\ pc[h] = "getPatients"
    /\ \E rows \in SelectAll(table), k \in 0..Cardinality(DOMAIN table) :
        Return(h, [NoReq EXCEPT !.op = "getPatients"], "rows_error",
               CompleteList(Collect(NilSlice, SubSeq(rows, 1, k))))
    /\ UNCHANGED <<table, seq, returned, pristine>>

NextFault ==
    \/ Next
    \/ \E h \in Handlers : StorageFail(h)
    \/ \E h \in Handlers : GetPatientsRowsErr(h)

SpecFault == Init /\ [][NextFault]_vars

\* ---- properties -----------------------------------------------------------
\* Handler h leaves resolver op in this step: its statement has run.
Step(h, op) == pc[h] = op /\ pc'[h] /= op

\* Some row of t holds this email.
EmailHeld(t, email) == \E j \in DOMAIN t : t[j].email = email

\* The entity stored under id in t.
RowOf(t, id) == Patient(id, t[id].name, t[id].email, t[id].phone)

\* The list l holds exactly the rows of t, each once.
SameRows(l, t) ==
    /\ Len(l) = Cardinality(DOMAIN t)
    /\ \A i \in DOMAIN t : \E k \in 1..Len(l) : l[k] = RowOf(t, i)

\* C1: a create whose email no row holds returns an id that no row has ever
\* had, deleted rows included, and the row is there for getPatient: a
\* getPatient of an id in the table returns the row of that id.
C1_FreshIdRetrievable ==
    [][\A h \in Handlers :
        /\ (Step(h, "create") /\ ~EmailHeld(table, last'.req.email)) =>
              /\ alive'
              /\ last'.resp.kind = "patient"
              /\ last'.resp.value.id \notin usedIds
              /\ last'.resp.value.id \notin DOMAIN table
              /\ SelectPatient(table', last'.resp.value.id) =
                    [err |-> "nil", patient |-> last'.resp.value]
        /\ (Step(h, "getPatient") /\ last'.req.id \in DOMAIN table) =>
              /\ alive'
              /\ last'.resp.kind = "patient"
              /\ last'.resp.value.id = last'.req.id
      ]_vars

\* A create has returned the second id after the first patient was deleted.
C1_Witness ==
    /\ last.req.op = "create"
    /\ last.resp.kind = "patient"
    /\ Len(returned) >= 2
    /\ Cardinality(DOMAIN table) = 1
    /\ last.resp.value.id \in DOMAIN table

\* C2: a create whose email a row already holds fails with a conflict error
\* that the caller receives, and leaves the table as it was.
C2_ConflictError ==
    [][\A h \in Handlers :
        (Step(h, "create") /\ EmailHeld(table, last'.req.email)) =>
              /\ last'.resp.kind = "error"
              /\ table' = table
      ]_vars

\* C3: no two rows of the table have the same email.
C3_EmailUnique ==
    \A i, j \in DOMAIN table : i /= j => table[i].email /= table[j].email

\* Two patients are in the table and an update has just rewritten one of them.
C3_Witness ==
    /\ Cardinality(DOMAIN table) = 2
    /\ last.req.op = "update"
    /\ last.resp.kind = "patient"
    /\ last.req.id \in DOMAIN table

\* C4: an update whose id matches no row fails with a not-found error and
\* changes no row.
C4_UpdateNotFound ==
    [][\A h \in Handlers :
        (Step(h, "update") /\ last'.req.id \notin DOMAIN table) =>
              /\ last'.resp.kind = "error"
              /\ table' = table
      ]_vars

\* C5: a delete of an id in the table removes the row, and a getPatient of an
\* id whose row was deleted fails with a not-found error.
C5_DeleteThenNotFound ==
    [][\A h \in Handlers :
        /\ Step(h, "delete") => last'.req.id \notin DOMAIN table'
        /\ (Step(h, "getPatient") /\ last'.req.id \in usedIds \ DOMAIN table) =>
              last'.resp.kind = "error"
      ]_vars

\* The ids in s are pairwise distinct.
NoDup(s) == \A i, j \in 1..Len(s) : i /= j => s[i] /= s[j]

\* C6: whatever the interleaving of the handlers, every create whose email no
\* row holds when its insert runs succeeds, and the ids the creates have
\* returned are pairwise distinct.
C6_ConcurrentCreates ==
    /\ []NoDup(returned)
    /\ [][\A h \in Handlers :
            (Step(h, "create") /\ ~EmailHeld(table, last'.req.email)) =>
                  /\ alive'
                  /\ last'.err = "nil"
                  /\ returned' = Append(returned, last'.resp.value.id)
         ]_vars

\* One create has returned while the other handler is inside its own create.
C6_Witness ==
    /\ last.req.op = "create"
    /\ last.resp.kind = "patient"
    /\ returned /= <<>>
    /\ \E g \in Handlers : pc[g] = "create"

\* C7: create returns the id with the name, email and phone it was given, and
\* a getPatient of that id, the row not updated or deleted in between, returns
\* the same four values.
C7_RoundTrip ==
    [][\A h \in Handlers :
        /\ (Step(h, "create") /\ last'.resp.kind = "patient") =>
              /\ last'.resp.value.name = last'.req.name
              /\ last'.resp.value.email = last'.req.email
              /\ last'.resp.value.phone = last'.req.phone
              /\ pristine'[last'.resp.value.id] = last'.resp.value
        /\ (Step(h, "getPatient") /\ last'.req.id \in DOMAIN pristine) =>
              last'.resp = [kind |-> "patient", value |-> pristine[last'.req.id]]
      ]_vars

\* A getPatient has returned a patient that was created and not touched since.
C7_Witness ==
    /\ last.req.op = "getPatient"
    /\ last.resp.kind = "patient"
    /\ last.req.id \in DOMAIN pristine
    /\ last.resp.value.name = "Ann"

\* C8: getPatients returns a list (never null, never an error) of exactly the
\* rows in the table, all of them; on the empty table the empty list.
C8_ListsAllRows ==
    [][\A h \in Handlers :
        Step(h, "getPatients") =>
              /\ alive'
              /\ last'.err = "nil"
              /\ last'.resp.kind = "list"
              /\ SameRows(last'.resp.value, table)
              /\ DOMAIN table = {} => last'.resp.value = <<>>
      ]_vars

\* getPatients has answered the empty list on the empty table.
C8_Witness ==
    /\ DOMAIN table = {}
    /\ last.req.op = "getPatients"
    /\ last.resp.kind = "list"
    /\ last.resp.value = <<>>

\* The process has exited on the storage error of the last invocation, for
\* which no result was written.
FatalOutcome == ~alive /\ last.resp = NoResp /\ \E h \in Handlers : pc[h] = "fatal"

UpdateOverwrites ==
    LET a == last'.req IN
    /\ alive'
    /\ DOMAIN table' = DOMAIN table
    /\ table'[a.id] = [name |-> a.name, email |-> a.email, phone |-> a.phone]
    /\ \A i \in DOMAIN table \ {a.id} : table'[i] = table[i]
    /\ last'.resp = [kind |-> "patient", value |-> Patient(a.id, a.name, a.email, a.phone)]

\* C10 as stated: every update of an id in the table overwrites name, email
\* and phone of that row alone and returns the arguments.
C10_UpdateOverwritesAll ==
    [][\A h \in Handlers :
        (Step(h, "update") /\ last'.req.id \in DOMAIN table) => UpdateOverwrites
      ]_vars

\* C10 amended: so does every update of an id in the table whose email no
\* other row holds.
C10_UpdateOverwritesUnlessConflict ==
    [][\A h \in Handlers :
        (/\ Step(h, "update")
         /\ last'.req.id \in DOMAIN table
         /\ ~EmailConflict(table, last'.req.id, last'.req.email)) => UpdateOverwrites
      ]_vars

\* An update with the name omitted has emptied the name of one of two rows.
C10_Witness ==
    /\ last.req.op = "update"
    /\ last.req.name = ""
    /\ last.resp.kind = "patient"
    /\ Cardinality(DOMAIN table) = 2
    /\ last.req.id \in DOMAIN table
    /\ table[last.req.id].name = ""
    /\ last.req.id \notin DOMAIN pristine

====
